---- MODULE Spec2Model ----
(***************************************************************************)
(* QjsBinaryCodeExecutor: the container parser (loadModulesFromFile), the  *)
(* context factory (createCustomContext), the exception reporter           *)
(* (getExceptionStack), the execution lifecycle (execute) and the          *)
(* destructor, as a state machine over one executor object.                *)
(*                                                                         *)
(* The QuickJS engine is an external collaborator: each of its calls is a  *)
(* nondeterministic choice among the outcomes its interface allows.        *)
(***************************************************************************)
EXTENDS Integers, Sequences, FiniteSets, TLC

VARIABLES
    modules_,        \* std::vector<Module>: <<[load_only, data]>>
    runtime_,        \* JSRuntime*: 0 is nullptr, a positive number a handle
    context_,        \* JSContext*: 0 is nullptr, a positive number a handle
    hooks,           \* the names of the std::function slots that hold a callback
    executionMode_,  \* "BINARY" or "JS"
    disk,            \* the file entryFile_ names (how it was written, see FileBytes)
    bigEndianHost,   \* byte order of the host's uint64_t
    pc,              \* position of the thread that drives the executor
    idx,             \* position of execute()'s loop over modules_ (1-based)
    has_entry,       \* execute()'s local has_entry
    created,         \* per execute() call so far, the runtime and the main context
                     \* it created: <<[rt, ctx]>>, 0 for none
    released,        \* the JS_FreeContext and JS_FreeRuntime calls made, in order
    parses,          \* number of direct loadModulesFromFile() calls made
    workers,         \* number of worker threads the engine spawned in this execute()
    nextHandle,      \* the next fresh engine handle
    trace            \* the events of the current (or last) call of a public method,
                     \* and of the destructor after it, in order (see Ev)

vars == <<modules_, runtime_, context_, hooks, executionMode_, disk, bigEndianHost,
          pc, idx, has_entry, created, released, parses, workers, nextHandle, trace>>

\* number of execute() calls started
calls == Len(created)

----------------------------------------------------------------------------
(* Bounds of the model *)

\* execute() calls on one executor (2 = one reuse)
MaxRuns == 2
\* direct loadModulesFromFile() calls on one executor
MaxParses == 2
\* complete records in a container file of the parser specification
MaxRecs == 2
\* worker threads the engine spawns during one execute()
MaxWorkers == 1
\* direct calls of workerContextCallback on one executor
MaxFactoryCalls == 2

----------------------------------------------------------------------------
(* Bytes, files and fread *)

\* A byte string is a sequence of runs [b |-> byte, n |-> count], n >= 1, so
\* that a 100 MiB payload is one run.  Canon merges adjacent runs of one byte.
Run(b, n) == [b |-> b, n |-> n]

RECURSIVE Size(_)
Size(s) == IF s = <<>> THEN 0 ELSE Head(s).n + Size(Tail(s))

RECURSIVE Take(_, _)
Take(s, k) ==
    IF k <= 0 \/ s = <<>> THEN <<>>
    ELSE IF Head(s).n <= k THEN <<Head(s)>> \o Take(Tail(s), k - Head(s).n)
    ELSE <<Run(Head(s).b, k)>>

RECURSIVE Drop(_, _)
Drop(s, k) ==
    IF k <= 0 \/ s = <<>> THEN s
    ELSE IF Head(s).n <= k THEN Drop(Tail(s), k - Head(s).n)
    ELSE <<Run(Head(s).b, Head(s).n - k)>> \o Tail(s)

RECURSIVE Canon(_)
Canon(s) ==
    IF Len(s) <= 1 THEN s
    ELSE IF s[1].b = s[2].b
         THEN Canon(<<Run(s[1].b, s[1].n + s[2].n)>> \o Tail(Tail(s)))
         ELSE <<s[1]>> \o Canon(Tail(s))

\* The bytes of a short byte string, one per element.
RECURSIVE Expand(_)
Expand(s) ==
    IF s = <<>> THEN <<>>
    ELSE IF Head(s).n = 1 THEN <<Head(s).b>> \o Expand(Tail(s))
    ELSE <<Head(s).b>> \o Expand(<<Run(Head(s).b, Head(s).n - 1)>> \o Tail(s))

Reverse(s) == [i \in 1..Len(s) |-> s[Len(s) + 1 - i]]

\* fread(buf, 1, n, f) on the unread rest of a stream: the bytes read, their
\* number, and the rest of the stream.
fread(rest, n) ==
    [got  |-> IF Size(rest) < n THEN Size(rest) ELSE n,
     data |-> Take(rest, n),
     rest |-> Drop(rest, n)]

----------------------------------------------------------------------------
(* uint64_t: eight base-256 digits, least significant first *)

U64Bytes == 8

Digit(n, i) ==
    IF i = 1 THEN n % 256
    ELSE IF i = 2 THEN (n \div 256) % 256
    ELSE IF i = 3 THEN (n \div 65536) % 256
    ELSE IF i = 4 THEN (n \div 16777216) % 256
    ELSE 0

\* The uint64_t of a number below 2^31.
U64(n) == [i \in 1..U64Bytes |-> Digit(n, i)]

U64IsZero(d) == \A i \in 1..U64Bytes : d[i] = 0

\* a > b
U64Greater(a, b) ==
    \E i \in 1..U64Bytes :
        /\ a[i] > b[i]
        /\ \A j \in (i + 1)..U64Bytes : a[j] = b[j]

\* The number a uint64_t below 2^31 holds.
U64ToNat(d) == d[1] + 256 * d[2] + 65536 * d[3] + 16777216 * d[4]

\* The uint64_t that fread(&data_length, sizeof(uint64_t), 1, f) stores for the
\* eight bytes read, in the host's byte order.
LoadU64(bytes, be) == IF be THEN Reverse(bytes) ELSE bytes

----------------------------------------------------------------------------
(* Observable events *)

\* One entry of trace: an engine call, a callback invocation or a line on a
\* stream.  rt and ctx are handles (0: nullptr or not applicable), arg the
\* strings passed (a tuple), n a number (module index, status, call number).
Ev(op, rt, ctx, arg, n) == [op |-> op, rt |-> rt, ctx |-> ctx, arg |-> arg, n |-> n]

\* The six callback slots.
AllHooks == {"afterRuntimeCreate", "afterContextCreate", "onError", "onJsError",
             "afterExecute", "beforeRelease"}

\* if (cb) cb(...): the callback's invocation, when the slot holds one.
Fire(hs, name, rt, ctx, arg) ==
    IF name \in hs THEN <<Ev(name, rt, ctx, arg, 0)>> ELSE <<>>

\* reportError(msg): errorCallback_(runtime_, context_, msg) when registered,
\* a line on stderr otherwise.
reportError(hs, rt, ctx, msg) ==
    IF "onError" \in hs THEN <<Ev("onError", rt, ctx, <<msg>>, 0)>>
    ELSE <<Ev("stderr", 0, 0, <<msg>>, 0)>>

----------------------------------------------------------------------------
(* The container file *)

\* A record as written: flag byte, length field, payload bytes.
Rec(flag, payload) == [flag |-> flag, len |-> U64(Size(payload)), payload |-> payload]

\* The length field as it lies in the file, in the writing host's byte order.
StoreU64(d, be) == IF be THEN Reverse(d) ELSE d

RecBytes(r, be) ==
    <<Run(r.flag, 1)>>
    \o [i \in 1..U64Bytes |-> Run(StoreU64(r.len, be)[i], 1)]
    \o r.payload

RECURSIVE Serialize(_, _)
Serialize(recs, be) ==
    IF recs = <<>> THEN <<>> ELSE RecBytes(Head(recs), be) \o Serialize(Tail(recs), be)

\* A file is kept as it was written: complete records, then at most one
\* record cut off after keep bytes.  The parser sees FileBytes only.
File(recs) == [exists |-> TRUE, recs |-> recs, partial |-> <<>>, keep |-> 0]
Truncated(recs, r, k) == [exists |-> TRUE, recs |-> recs, partial |-> <<r>>, keep |-> k]
NoFile == [exists |-> FALSE, recs |-> <<>>, partial |-> <<>>, keep |-> 0]

FileBytes(f, be) ==
    Serialize(f.recs, be)
    \o (IF f.partial = <<>> THEN <<>> ELSE Take(RecBytes(f.partial[1], be), f.keep))

----------------------------------------------------------------------------
(* loadModulesFromFile *)

MAX_MODULE_SIZE == 104857600

\* Mutant of SizeRejected: >= for >.
SizeRejectedAtMax(data_length) ==
    \/ U64IsZero(data_length)
    \/ U64Greater(data_length, U64(MAX_MODULE_SIZE))
    \/ data_length = U64(MAX_MODULE_SIZE)

\* if (data_length == 0 || data_length > MAX_MODULE_SIZE)
SizeRejected(data_length) ==
    U64IsZero(data_length) \/ U64Greater(data_length, U64(MAX_MODULE_SIZE))

\* Mutant of PushModule: load_only == 1 for load_only != 0.
PushModuleFlagOne(mods, load_only, data) ==
    Append(mods, [load_only |-> load_only = 1, data |-> Canon(data)])

\* modules_.push_back({load_only != 0, std::move(data)})
PushModule(mods, load_only, data) ==
    Append(mods, [load_only |-> load_only # 0, data |-> Canon(data)])

\* fread(&data_length, sizeof(uint64_t), 1, f) == 1: one whole item was read.
HeaderRead(len) == len.got \div U64Bytes = 1

\* Mutant of PayloadRead: the number of bytes read is not compared.
PayloadReadUnchecked(data, n) == TRUE

\* fread(data.data(), 1, data_length, f) == data_length
PayloadRead(data, n) == data.got = n

\* The while (true) loop of loadModulesFromFile from the stream position where
\* rest is unread, mods being modules_: modules_ and the lines written when
\* the loop is left.
RECURSIVE ReadModules(_, _, _)
ReadModules(rest, mods, be) ==
    LET flag == fread(rest, 1) IN
    IF flag.got # 1 THEN [modules |-> mods, out |-> <<>>]
    ELSE
    LET len == fread(flag.rest, U64Bytes) IN
    IF ~HeaderRead(len)
    THEN [modules |-> mods, out |-> <<Ev("stderr", 0, 0, <<"HeaderIncomplete">>, Len(mods))>>]
    ELSE
    LET data_length == LoadU64(Expand(len.data), be) IN
    IF SizeRejected(data_length)
    THEN [modules |-> mods, out |-> <<Ev("stderr", 0, 0, <<"SizeAbnormal">>, Len(mods))>>]
    ELSE
    LET data == fread(len.rest, U64ToNat(data_length)) IN
    IF ~PayloadRead(data, U64ToNat(data_length))
    THEN [modules |-> mods, out |-> <<Ev("stdout", 0, 0, <<"DataIncomplete">>, Len(mods))>>]
    ELSE ReadModules(data.rest, PushModule(mods, Head(flag.data).b, data.data), be)

\* loadModulesFromFile(filename) with modules_ = mods: the new modules_ and
\* what it reports.
loadModulesFromFile(f, mods, hs, rt, ctx, be) ==
    IF ~f.exists
    THEN [modules |-> mods, out |-> reportError(hs, rt, ctx, "CannotOpenFile")]
    ELSE ReadModules(FileBytes(f, be), <<>>, be)

----------------------------------------------------------------------------
(* The engine, as far as the executor sees it *)

\* Values a script can throw or reject with: what JS_IsError answers, what
\* JS_ToCString of the value gives (ok FALSE: NULL), and JS_ToCString of its
\* name, message and stack properties.
Str(s) == [ok |-> TRUE, s |-> s]
NullStr == [ok |-> FALSE, s |-> ""]

TypeErrorValue ==
    [isError |-> TRUE, str |-> Str("TypeError: bad input"),
     name |-> Str("TypeError"), message |-> Str("bad input"), stack |-> Str("at main")]
BoomValue ==
    [isError |-> FALSE, str |-> Str("boom"),
     name |-> NullStr, message |-> NullStr, stack |-> NullStr]
UncoercibleValue ==
    [isError |-> FALSE, str |-> NullStr,
     name |-> NullStr, message |-> NullStr, stack |-> NullStr]

\* An error object whose message and stack cannot be coerced.
BareErrorValue ==
    [isError |-> TRUE, str |-> Str("Error"),
     name |-> Str("Error"), message |-> NullStr, stack |-> NullStr]

ExcSeq == <<TypeErrorValue, BareErrorValue, BoomValue, UncoercibleValue>>
ExcValues == {ExcSeq[i] : i \in 1..Len(ExcSeq)}

\* The number that stands for the value v in an event.
ExcId(v) == CHOOSE i \in 1..Len(ExcSeq) : ExcSeq[i] = v

\* js_std_eval_binary_bool: TRUE, or FALSE with a pending exception.
EvalOutcomes ==
    {[ok |-> TRUE, exc |-> BoomValue]} \cup {[ok |-> FALSE, exc |-> v] : v \in ExcValues}

\* JS_Eval of the entry source as a module: an exception is pending, or the
\* result is settled as rejected with a value, or as fulfilled.
JsOutcomes ==
    {[kind |-> "throws", exc |-> v] : v \in ExcValues}
    \cup {[kind |-> "rejected", exc |-> v] : v \in ExcValues}
    \cup {[kind |-> "fulfilled", exc |-> BoomValue]}

\* js_std_loop's status.
LoopStatuses == {0, 1}

\* The function the engine calls for a worker thread's context: the call
\* js_std_set_worker_new_context_func(workerContextCallback, this) is
\* commented out in execute(), so the engine keeps its own.
js_worker_new_context_func == "engineDefault"

----------------------------------------------------------------------------
(* createCustomContext, getExceptionStack *)

\* Mutant of OrEmpty: a NULL string is delivered as "(null)".
OrNullText(c) == IF c.ok THEN c.s ELSE "(null)"

\* x ? x : ""
OrEmpty(c) == IF c.ok THEN c.s ELSE ""

\* The engine calls of getExceptionStack that acquire or release a
\* reference; ref is the local variable that holds it.  For a C string n is
\* 1 when the pointer is not NULL, 0 when it is (JS_FreeCString(ctx, NULL)
\* releases nothing).
ToCString(rt, ctx, ref, c) == Ev("JS_ToCString", rt, ctx, <<ref>>, IF c.ok THEN 1 ELSE 0)
FreeCString(rt, ctx, ref, c) == Ev("JS_FreeCString", rt, ctx, <<ref>>, IF c.ok THEN 1 ELSE 0)
GetPropertyStr(rt, ctx, ref) == Ev("JS_GetPropertyStr", rt, ctx, <<ref>>, 0)
FreeValue(rt, ctx, ref) == Ev("JS_FreeValue", rt, ctx, <<ref>>, 0)

\* Mutant of getExceptionStack: the early return does not free the exception.
getExceptionStackLeaking(hs, rt, ctx, exc) ==
    <<Ev("JS_GetException", rt, ctx, <<"exception">>, ExcId(exc)),
      ToCString(rt, ctx, "err_cstr", exc.str)>>
    \o (IF ~exc.str.ok THEN <<>>
        ELSE (IF exc.isError
              THEN <<GetPropertyStr(rt, ctx, "name_val"),
                     GetPropertyStr(rt, ctx, "message_val"),
                     GetPropertyStr(rt, ctx, "stack_val"),
                     ToCString(rt, ctx, "name_cstr", exc.name),
                     ToCString(rt, ctx, "message_cstr", exc.message),
                     ToCString(rt, ctx, "stack_cstr", exc.stack)>>
                   \o Fire(hs, "onJsError", rt, ctx,
                           <<OrEmpty(exc.name), OrEmpty(exc.message), OrEmpty(exc.stack)>>)
                   \o <<FreeCString(rt, ctx, "name_cstr", exc.name),
                        FreeCString(rt, ctx, "message_cstr", exc.message),
                        FreeCString(rt, ctx, "stack_cstr", exc.stack),
                        FreeValue(rt, ctx, "name_val"),
                        FreeValue(rt, ctx, "message_val"),
                        FreeValue(rt, ctx, "stack_val")>>
              ELSE <<>>)
             \o <<FreeCString(rt, ctx, "err_cstr", exc.str),
                  FreeValue(rt, ctx, "exception")>>)

\* getExceptionStack() when exc is the pending exception.
getExceptionStack(hs, rt, ctx, exc) ==
    <<Ev("JS_GetException", rt, ctx, <<"exception">>, ExcId(exc)),
      ToCString(rt, ctx, "err_cstr", exc.str)>>
    \o (IF ~exc.str.ok THEN <<FreeValue(rt, ctx, "exception")>>
        ELSE (IF exc.isError
              THEN <<GetPropertyStr(rt, ctx, "name_val"),
                     GetPropertyStr(rt, ctx, "message_val"),
                     GetPropertyStr(rt, ctx, "stack_val"),
                     ToCString(rt, ctx, "name_cstr", exc.name),
                     ToCString(rt, ctx, "message_cstr", exc.message),
                     ToCString(rt, ctx, "stack_cstr", exc.stack)>>
                   \o Fire(hs, "onJsError", rt, ctx,
                           <<OrEmpty(exc.name), OrEmpty(exc.message), OrEmpty(exc.stack)>>)
                   \o <<FreeCString(rt, ctx, "name_cstr", exc.name),
                        FreeCString(rt, ctx, "message_cstr", exc.message),
                        FreeCString(rt, ctx, "stack_cstr", exc.stack),
                        FreeValue(rt, ctx, "name_val"),
                        FreeValue(rt, ctx, "message_val"),
                        FreeValue(rt, ctx, "stack_val")>>
              ELSE <<>>)
             \o <<FreeCString(rt, ctx, "err_cstr", exc.str),
                  FreeValue(rt, ctx, "exception")>>)

\* Mutant of PreloadEvals: every module is evaluated, whatever its flag.
RECURSIVE PreloadEvalsAll(_, _, _, _)
PreloadEvalsAll(mods, i, rt, ctx) ==
    IF i > Len(mods) THEN <<>>
    ELSE <<Ev("js_std_eval_binary_bool", rt, ctx, <<"load_only">>, i)>>
         \o PreloadEvalsAll(mods, i + 1, rt, ctx)

\* The loop of createCustomContext over modules_ from index i: one
\* js_std_eval_binary_bool(ctx, ..., true) per load_only module.
RECURSIVE PreloadEvals(_, _, _, _)
PreloadEvals(mods, i, rt, ctx) ==
    IF i > Len(mods) THEN <<>>
    ELSE (IF mods[i].load_only
          THEN <<Ev("js_std_eval_binary_bool", rt, ctx, <<"load_only">>, i)>>
          ELSE <<>>)
         \o PreloadEvals(mods, i + 1, rt, ctx)

\* Mutant of createCustomContext: afterContextCreateCallback_ is not invoked.
createCustomContextNoHook(hs, mode, mods, rt, ctx) ==
    <<Ev("JS_NewContext", rt, ctx, <<>>, 0)>>
    \o (IF ctx = 0 THEN <<>>
        ELSE IF mode = "BINARY" THEN PreloadEvals(mods, 1, rt, ctx) ELSE <<>>)

\* Mutant of createCustomContext: the load_only modules are evaluated in
\* JS mode too.
createCustomContextAnyMode(hs, mode, mods, rt, ctx) ==
    <<Ev("JS_NewContext", rt, ctx, <<>>, 0)>>
    \o (IF ctx = 0 THEN <<>>
        ELSE PreloadEvals(mods, 1, rt, ctx)
             \o Fire(hs, "afterContextCreate", rt, ctx, <<>>))

\* createCustomContext(rt) where JS_NewContext(rt) returns ctx (0: nullptr).
createCustomContext(hs, mode, mods, rt, ctx) ==
    <<Ev("JS_NewContext", rt, ctx, <<>>, 0)>>
    \o (IF ctx = 0 THEN <<>>
        ELSE (IF mode = "BINARY" THEN PreloadEvals(mods, 1, rt, ctx) ELSE <<>>)
             \o Fire(hs, "afterContextCreate", rt, ctx, <<>>))

\* workerContextCallback(rt, userdata)
workerContextCallback(hs, mode, mods, rt, ctx) ==
    createCustomContext(hs, mode, mods, rt, ctx)

----------------------------------------------------------------------------
(* Inputs *)

PayloadA == <<Run(65, 1)>>
PayloadB == <<Run(66, 1), Run(67, 1)>>
PayloadMax == <<Run(0, MAX_MODULE_SIZE)>>

\* Callback registrations the host makes: all six, none, all but one.
HookConfigs == {AllHooks, {}} \cup {AllHooks \ {h} : h \in AllHooks}

\* Containers the lifecycle runs on.
LifecycleFiles ==
    {NoFile,
     File(<<>>),
     File(<<Rec(1, PayloadA), Rec(0, PayloadB), Rec(1, PayloadA)>>),
     File(<<Rec(0, PayloadA), Rec(0, PayloadB)>>),
     File(<<Rec(1, PayloadA)>>),
     Truncated(<<Rec(0, PayloadB)>>, Rec(1, PayloadA), 5)}

\* In JS mode entryFile_ names a source text; what it says is the outcome of
\* JS_Eval (JsOutcomes).
SourceFiles == {File(<<>>)}

\* Records of the parser's containers: well formed (0 < length <= maximum),
\* and with a length field of 0, of maximum + 1 and of 2^32 + 1.
Flags == {0, 1, 255}
WellFormedRecs ==
    {Rec(fl, PayloadA) : fl \in Flags} \cup {Rec(0, PayloadB), Rec(1, PayloadMax)}
MalformedRecs ==
    {[flag |-> 1, len |-> U64(0), payload |-> <<>>],
     [flag |-> 1, len |-> U64(MAX_MODULE_SIZE + 1), payload |-> <<Run(0, MAX_MODULE_SIZE + 1)>>],
     [flag |-> 1, len |-> <<1, 0, 0, 0, 1, 0, 0, 0>>, payload |-> PayloadA]}

WellFormed(r) ==
    /\ r.len = U64(Size(r.payload))
    /\ Size(r.payload) > 0
    /\ Size(r.payload) <= MAX_MODULE_SIZE

RecSeqs(S) == UNION {[1..n -> S] : n \in 0..MaxRecs}

\* Where a record is cut off: inside the length field (after 1 and 5 bytes),
\* before the first and before the last byte of the payload.
CutPoints(r) == {1, 5, 1 + U64Bytes, U64Bytes + Size(r.payload)}

TruncatedTails == {Rec(1, PayloadA), Rec(1, PayloadB), Rec(1, PayloadMax)}

ParserFiles ==
    LET seqs == RecSeqs(WellFormedRecs \cup MalformedRecs) IN
    {NoFile}
    \cup {File(rs) : rs \in seqs}
    \cup UNION {{Truncated(rs, r, k) : rs \in seqs, k \in CutPoints(r)} : r \in TruncatedTails}

\* Files of the parser calls before the last one.
PriorFiles == {NoFile, File(<<Rec(1, PayloadA), Rec(0, PayloadB)>>)}

----------------------------------------------------------------------------
(* The state machine *)

\* The executor as constructed: the member initialisers of the class.
InitObject ==
    /\ modules_ = <<>>
    /\ runtime_ = 0
    /\ context_ = 0
    /\ hooks = {}
    /\ executionMode_ = "BINARY"
    /\ disk = NoFile
    /\ pc = "constructed"
    /\ idx = 1
    /\ has_entry = FALSE
    /\ created = <<>>
    /\ released = <<>>
    /\ parses = 0
    /\ workers = 0
    /\ nextHandle = 1
    /\ trace = <<>>

Init == InitObject /\ bigEndianHost = FALSE

InitParser == InitObject /\ bigEndianHost \in BOOLEAN

\* The host's setter calls before it uses the executor: setExecutionMode,
\* setEntryFile (f is the file the path names) and the registrations.
Configure(m, hs, f) ==
    /\ pc = "constructed"
    /\ executionMode_' = m
    /\ hooks' = hs
    /\ disk' = f
    /\ pc' = "idle"
    /\ UNCHANGED <<modules_, runtime_, context_, bigEndianHost, idx, has_entry, created,
                   released, parses, workers, nextHandle, trace>>

HostConfigure ==
    /\ pc = "constructed"
    /\ \E m \in {"BINARY", "JS"}, hs \in HookConfigs :
           \E f \in (IF m = "BINARY" THEN LifecycleFiles ELSE SourceFiles) :
               Configure(m, hs, f)

\* The host calls loadModulesFromFile(filename) itself, f being the file.
HostLoad(f) ==
    /\ pc = "idle"
    /\ calls = 0
    /\ parses < MaxParses
    /\ LET r == loadModulesFromFile(f, modules_, hooks, runtime_, context_, bigEndianHost) IN
        /\ modules_' = r.modules
        /\ trace' = <<Ev("loadModulesFromFile", 0, 0, <<>>, parses + 1)>> \o r.out
    /\ disk' = f
    /\ parses' = parses + 1
    /\ UNCHANGED <<runtime_, context_, hooks, executionMode_, bigEndianHost, pc, idx,
                   has_entry, created, released, workers, nextHandle>>

\* A container the host loads itself before a JS mode run: an entry record,
\* then a load_only record.
LibraryFile == File(<<Rec(0, PayloadA), Rec(1, PayloadB)>>)

\* In JS mode execute() does not call the parser; the host may have called
\* loadModulesFromFile on a container of its own before execute().
HostPreload ==
    /\ pc = "idle"
    /\ calls = 0
    /\ executionMode_ = "JS"
    /\ parses < MaxParses
    /\ LET r == loadModulesFromFile(LibraryFile, modules_, hooks, runtime_, context_,
                                    bigEndianHost) IN
        /\ modules_' = r.modules
        /\ trace' = <<Ev("loadModulesFromFile", 0, 0, <<>>, parses + 1)>> \o r.out
    /\ parses' = parses + 1
    /\ UNCHANGED <<runtime_, context_, hooks, executionMode_, disk, bigEndianHost, pc, idx,
                   has_entry, created, released, workers, nextHandle>>

\* execute() up to JS_NewRuntime: in BINARY mode loadModulesFromFile(entryFile_).
ExecuteLoad ==
    /\ pc = "idle"
    /\ calls < MaxRuns
    /\ created' = Append(created, [rt |-> 0, ctx |-> 0])
    /\ workers' = 0
    /\ LET r == IF executionMode_ = "BINARY"
                THEN loadModulesFromFile(disk, modules_, hooks, runtime_, context_,
                                         bigEndianHost)
                ELSE [modules |-> modules_, out |-> <<>>] IN
        /\ modules_' = r.modules
        /\ trace' = <<Ev("execute", 0, 0, <<>>, calls + 1)>> \o r.out
    /\ pc' = "newRuntime"
    /\ UNCHANGED <<runtime_, context_, hooks, executionMode_, disk, bigEndianHost, idx,
                   has_entry, released, parses, nextHandle>>

\* return v
Return(v) == <<Ev("return", 0, 0, <<>>, v)>>

\* runtime_ = JS_NewRuntime() succeeds: afterRuntimeCreate, js_std_init_handlers,
\* JS_SetModuleLoaderFunc.
NewRuntimeOk ==
    /\ pc = "newRuntime"
    /\ runtime_' = nextHandle
    /\ nextHandle' = nextHandle + 1
    /\ created' = [created EXCEPT ![calls].rt = nextHandle]
    /\ trace' = trace \o <<Ev("JS_NewRuntime", nextHandle, 0, <<>>, 0)>>
                      \o Fire(hooks, "afterRuntimeCreate", nextHandle, 0, <<>>)
    /\ pc' = "newContext"
    /\ UNCHANGED <<modules_, context_, hooks, executionMode_, disk, bigEndianHost, idx,
                   has_entry, released, parses, workers>>

\* runtime_ = JS_NewRuntime() fails: reportError, return -1.
NewRuntimeFail ==
    /\ pc = "newRuntime"
    /\ runtime_' = 0
    /\ trace' = trace \o <<Ev("JS_NewRuntime", 0, 0, <<>>, 0)>>
                      \o reportError(hooks, 0, context_, "RuntimeCreateFailed")
                      \o Return(-1)
    /\ pc' = "idle"
    /\ UNCHANGED <<modules_, context_, hooks, executionMode_, disk, bigEndianHost, idx,
                   has_entry, created, released, parses, workers, nextHandle>>

\* Mutant of NewContextOk: the factory empties modules_ once it has
\* evaluated the load_only modules.
NewContextOkConsuming ==
    /\ pc = "newContext"
    /\ context_' = nextHandle
    /\ nextHandle' = nextHandle + 1
    /\ created' = [created EXCEPT ![calls].ctx = nextHandle]
    /\ trace' = trace \o createCustomContext(hooks, executionMode_, modules_, runtime_,
                                             nextHandle)
    /\ modules_' = <<>>
    /\ idx' = 1
    /\ has_entry' = FALSE
    /\ pc' = "runEntry"
    /\ UNCHANGED <<runtime_, hooks, executionMode_, disk, bigEndianHost,
                   released, parses, workers>>

\* context_ = createCustomContext(runtime_) with JS_NewContext succeeding.
NewContextOk ==
    /\ pc = "newContext"
    /\ context_' = nextHandle
    /\ nextHandle' = nextHandle + 1
    /\ created' = [created EXCEPT ![calls].ctx = nextHandle]
    /\ trace' = trace \o createCustomContext(hooks, executionMode_, modules_, runtime_,
                                             nextHandle)
    /\ idx' = 1
    /\ has_entry' = FALSE
    /\ pc' = "runEntry"
    /\ UNCHANGED <<modules_, runtime_, hooks, executionMode_, disk, bigEndianHost,
                   released, parses, workers>>

\* context_ = createCustomContext(runtime_) with JS_NewContext failing:
\* reportError, return -1.
NewContextFail ==
    /\ pc = "newContext"
    /\ context_' = 0
    /\ trace' = trace \o createCustomContext(hooks, executionMode_, modules_, runtime_, 0)
                      \o reportError(hooks, runtime_, 0, "ContextCreateFailed")
                      \o Return(-1)
    /\ pc' = "idle"
    /\ UNCHANGED <<modules_, runtime_, hooks, executionMode_, disk, bigEndianHost, idx,
                   has_entry, created, released, parses, workers, nextHandle>>

\* The first index from i on of a module that is not load_only, Len + 1 if none.
RECURSIVE NextEntry(_, _)
NextEntry(mods, i) ==
    IF i > Len(mods) THEN i
    ELSE IF ~mods[i].load_only THEN i
    ELSE NextEntry(mods, i + 1)

\* JS mode: JS_Eval of the entry source with outcome o, the report of an
\* exception or of a rejection, JS_FreeValue(runResult).
RunSource(o) ==
    /\ pc = "runEntry"
    /\ executionMode_ = "JS"
    /\ trace' = trace
            \o <<Ev("JS_Eval", runtime_, context_, <<o.kind>>, 0)>>
            \o (IF o.kind = "throws"
                THEN getExceptionStack(hooks, runtime_, context_, o.exc)
                ELSE <<Ev("JS_PromiseResult", runtime_, context_, <<>>, 0)>>
                     \o (IF o.kind = "rejected" /\ o.exc.isError
                         THEN <<Ev("JS_Throw", runtime_, context_, <<>>, 0)>>
                              \o getExceptionStack(hooks, runtime_, context_, o.exc)
                         ELSE <<FreeValue(runtime_, context_, "pr")>>))
            \o <<FreeValue(runtime_, context_, "runResult")>>
    /\ pc' = "eventLoop"
    /\ UNCHANGED <<modules_, runtime_, context_, hooks, executionMode_, disk, bigEndianHost,
                   idx, has_entry, created, released, parses, workers, nextHandle>>

\* BINARY mode, one turn of the loop over modules_ that evaluates a module:
\* js_std_eval_binary_bool(context_, ..., module.load_only) with outcome o on
\* the next module that is not load_only, getExceptionStack() if it failed.
EvalEntry(o) ==
    /\ pc = "runEntry"
    /\ executionMode_ = "BINARY"
    /\ NextEntry(modules_, idx) <= Len(modules_)
    /\ trace' = trace
            \o <<Ev("js_std_eval_binary_bool", runtime_, context_,
                    <<"entry", IF o.ok THEN "ok" ELSE "failed">>, NextEntry(modules_, idx))>>
            \o (IF ~o.ok THEN getExceptionStack(hooks, runtime_, context_, o.exc) ELSE <<>>)
    /\ has_entry' = TRUE
    /\ idx' = NextEntry(modules_, idx) + 1
    /\ UNCHANGED <<modules_, runtime_, context_, hooks, executionMode_, disk, bigEndianHost,
                   pc, created, released, parses, workers, nextHandle>>

\* Mutant of EntryLoopEnd: a missing entry module is not reported.
EntryLoopEndSilent ==
    /\ pc = "runEntry"
    /\ executionMode_ = "BINARY"
    /\ NextEntry(modules_, idx) > Len(modules_)
    /\ idx' = Len(modules_) + 1
    /\ pc' = "eventLoop"
    /\ UNCHANGED <<modules_, runtime_, context_, hooks, executionMode_, disk, bigEndianHost,
                   has_entry, created, released, parses, workers, nextHandle, trace>>

\* BINARY mode, the loop over modules_ ends: reportError if (!has_entry).
EntryLoopEnd ==
    /\ pc = "runEntry"
    /\ executionMode_ = "BINARY"
    /\ NextEntry(modules_, idx) > Len(modules_)
    /\ trace' = trace \o (IF ~has_entry
                          THEN reportError(hooks, runtime_, context_, "NoEntryModule")
                          ELSE <<>>)
    /\ idx' = Len(modules_) + 1
    /\ pc' = "eventLoop"
    /\ UNCHANGED <<modules_, runtime_, context_, hooks, executionMode_, disk, bigEndianHost,
                   has_entry, created, released, parses, workers, nextHandle>>

\* Mutant of EventLoop: execute() releases the context and the runtime before
\* it returns.
EventLoopReleasing(ret) ==
    /\ pc = "eventLoop"
    /\ trace' = trace \o <<Ev("js_std_loop", runtime_, context_, <<>>, ret)>>
                      \o Fire(hooks, "afterExecute", runtime_, context_, <<>>)
                      \o Fire(hooks, "beforeRelease", runtime_, context_, <<>>)
                      \o <<Ev("JS_FreeContext", 0, context_, <<>>, 0),
                           Ev("JS_FreeRuntime", runtime_, 0, <<>>, 0)>>
                      \o Return(ret)
    /\ released' = released \o <<Ev("JS_FreeContext", 0, context_, <<>>, 0),
                                  Ev("JS_FreeRuntime", runtime_, 0, <<>>, 0)>>
    /\ runtime_' = 0
    /\ context_' = 0
    /\ pc' = "idle"
    /\ UNCHANGED <<modules_, hooks, executionMode_, disk, bigEndianHost, idx, has_entry,
                   created, parses, workers, nextHandle>>

\* Mutant of EventLoop: execute() returns 0 whatever js_std_loop returned.
EventLoopReturnsZero(ret) ==
    /\ pc = "eventLoop"
    /\ trace' = trace \o <<Ev("js_std_loop", runtime_, context_, <<>>, ret)>>
                      \o Fire(hooks, "afterExecute", runtime_, context_, <<>>)
                      \o Return(0)
    /\ pc' = "idle"
    /\ UNCHANGED <<modules_, runtime_, context_, hooks, executionMode_, disk, bigEndianHost,
                   idx, has_entry, created, released, parses, workers, nextHandle>>

\* int ret = js_std_loop(context_); afterExecute; return ret.
EventLoop(ret) ==
    /\ pc = "eventLoop"
    /\ trace' = trace \o <<Ev("js_std_loop", runtime_, context_, <<>>, ret)>>
                      \o Fire(hooks, "afterExecute", runtime_, context_, <<>>)
                      \o Return(ret)
    /\ pc' = "idle"
    /\ UNCHANGED <<modules_, runtime_, context_, hooks, executionMode_, disk, bigEndianHost,
                   idx, has_entry, created, released, parses, workers, nextHandle>>

\* The engine starts a worker thread while a script runs: a runtime of its
\* own, and a context from js_worker_new_context_func.
WorkerSpawn ==
    /\ pc \in {"runEntry", "eventLoop"}
    /\ workers < MaxWorkers
    /\ workers' = workers + 1
    /\ nextHandle' = nextHandle + 2
    /\ trace' = trace
            \o <<Ev("workerThread", nextHandle, 0, <<>>, 0)>>
            \o (IF js_worker_new_context_func = "workerContextCallback"
                THEN workerContextCallback(hooks, executionMode_, modules_, nextHandle,
                                           nextHandle + 1)
                ELSE <<Ev("JS_NewContext", nextHandle, nextHandle + 1,
                          <<js_worker_new_context_func>>, 0)>>)
    /\ UNCHANGED <<modules_, runtime_, context_, hooks, executionMode_, disk, bigEndianHost,
                   pc, idx, has_entry, created, released, parses>>

\* Mutant of DestructorEvents: the runtime is freed before the context.
DestructorEventsRuntimeFirst(hs, rt, ctx) ==
    Fire(hs, "beforeRelease", rt, ctx, <<>>)
    \o (IF rt # 0 THEN <<Ev("JS_FreeRuntime", rt, 0, <<>>, 0)>> ELSE <<>>)
    \o (IF ctx # 0 THEN <<Ev("JS_FreeContext", 0, ctx, <<>>, 0)>> ELSE <<>>)

\* The body of ~QjsBinaryCodeExecutor(): beforeRelease, JS_FreeContext,
\* JS_FreeRuntime.
DestructorEvents(hs, rt, ctx) ==
    Fire(hs, "beforeRelease", rt, ctx, <<>>)
    \o (IF ctx # 0 THEN <<Ev("JS_FreeContext", 0, ctx, <<>>, 0)>> ELSE <<>>)
    \o (IF rt # 0 THEN <<Ev("JS_FreeRuntime", rt, 0, <<>>, 0)>> ELSE <<>>)

FreeOps == {"JS_FreeContext", "JS_FreeRuntime"}

\* The JS_FreeContext and JS_FreeRuntime calls among events.
Frees(events) == SelectSeq(events, LAMBDA e : e.op \in FreeOps)

\* ~QjsBinaryCodeExecutor()
Destructor ==
    /\ pc = "idle"
    /\ trace' = trace \o <<Ev("~QjsBinaryCodeExecutor", 0, 0, <<>>, 0)>>
                      \o DestructorEvents(hooks, runtime_, context_)
    /\ released' = released \o Frees(DestructorEvents(hooks, runtime_, context_))
    /\ pc' = "destroyed"
    /\ UNCHANGED <<modules_, runtime_, context_, hooks, executionMode_, disk, bigEndianHost,
                   idx, has_entry, created, parses, workers, nextHandle>>

RunEntrySource == \E o \in JsOutcomes : RunSource(o)
RunEntryModule == \E o \in EvalOutcomes : EvalEntry(o)
DrainEventLoop == \E ret \in LoopStatuses : EventLoop(ret)

Next ==
    \/ HostConfigure
    \/ HostPreload
    \/ ExecuteLoad
    \/ NewRuntimeOk
    \/ NewRuntimeFail
    \/ NewContextOk
    \/ NewContextFail
    \/ RunEntrySource
    \/ RunEntryModule
    \/ EntryLoopEnd
    \/ DrainEventLoop
    \/ WorkerSpawn
    \/ Destructor

Spec == Init /\ [][Next]_vars

\* The parser on its own: the host registers callbacks and calls
\* loadModulesFromFile; the calls before the last draw from PriorFiles.
HostRegister == pc = "constructed" /\ \E hs \in {{}, {"onError"}} : Configure("BINARY", hs, NoFile)

HostLoadFile ==
    /\ parses < MaxParses
    /\ \E f \in (IF parses + 1 < MaxParses THEN PriorFiles ELSE ParserFiles) : HostLoad(f)

NextParser ==
    \/ HostRegister
    \/ HostLoadFile

ParserSpec == InitParser /\ [][NextParser]_vars

\* The context factory on its own: the host configures the executor, loads
\* the container it named and calls the public static
\* workerContextCallback(rt, &executor) with a runtime of its own, as the
\* engine would for a worker thread; JS_NewContext succeeds or not.
HostLoadEntry == HostLoad(disk)

FactoryCall(ok) ==
    /\ pc = "idle"
    /\ calls = 0
    /\ workers < MaxFactoryCalls
    /\ workers' = workers + 1
    /\ nextHandle' = nextHandle + 2
    /\ trace' = trace \o workerContextCallback(hooks, executionMode_, modules_, nextHandle,
                                                IF ok THEN nextHandle + 1 ELSE 0)
    /\ UNCHANGED <<modules_, runtime_, context_, hooks, executionMode_, disk, bigEndianHost,
                   pc, idx, has_entry, created, released, parses>>

HostFactoryCall == \E ok \in BOOLEAN : FactoryCall(ok)

NextFactory ==
    \/ HostConfigure
    \/ HostLoadEntry
    \/ HostFactoryCall

FactorySpec == Init /\ [][NextFactory]_vars

----------------------------------------------------------------------------
(* Reading the state *)

Positions(op) == {i \in 1..Len(trace) : trace[i].op = op}

Min(S) == CHOOSE x \in S : \A y \in S : x <= y

Select(s, ops) == SelectSeq(s, LAMBDA e : e.op \in ops)

\* The runtime and the main context the current (or last) execute() created.
RunRt == IF calls = 0 THEN 0 ELSE created[calls].rt
RunCtx == IF calls = 0 THEN 0 ELSE created[calls].ctx

\* JS_NewRuntime, or JS_NewContext for the main context, returned nullptr in
\* the current (or last) execute().
RuntimeFailed == \E i \in Positions("JS_NewRuntime") : trace[i].rt = 0
ContextFailed ==
    \E i \in Positions("JS_NewContext") : trace[i].rt = RunRt /\ trace[i].ctx = 0

\* The current (or last) execute() has returned, and its return value.
HasReturned == calls >= 1 /\ Positions("return") # {}
ReturnValue == trace[Min(Positions("return"))].n

\* The events of the destructor.
DtorSlice == SubSeq(trace, Min(Positions("~QjsBinaryCodeExecutor")) + 1, Len(trace))

IsPrefix(a, b) == Len(a) <= Len(b) /\ a = SubSeq(b, 1, Len(a))

\* The names among ns (a sequence) that hold a callback.
Registered(ns) == SelectSeq(ns, LAMBDA h : h \in hooks)

\* The handles created by the executor, and how often each was released.
CreatedRuntimes == {created[k].rt : k \in 1..calls} \ {0}
CreatedContexts == {created[k].ctx : k \in 1..calls} \ {0}
ReleasesOfRuntime(h) ==
    Cardinality({i \in 1..Len(released) :
                    released[i].op = "JS_FreeRuntime" /\ released[i].rt = h})
ReleasesOfContext(h) ==
    Cardinality({i \in 1..Len(released) :
                    released[i].op = "JS_FreeContext" /\ released[i].ctx = h})
LiveRuntimes == {h \in CreatedRuntimes : ReleasesOfRuntime(h) = 0}
LiveContexts == {h \in CreatedContexts : ReleasesOfContext(h) = 0}

----------------------------------------------------------------------------
(* C1 *)

LifecycleHooks == {"afterRuntimeCreate", "afterContextCreate", "afterExecute",
                   "beforeRelease"}

\* The lifecycle callbacks of events in order; afterContextCreate for a
\* context other than main is marked as a worker's.
HookNames(events, main) ==
    LET h == Select(events, LifecycleHooks) IN
    [i \in 1..Len(h) |->
        IF h[i].op = "afterContextCreate" /\ h[i].ctx # main
        THEN "afterContextCreate(worker)" ELSE h[i].op]

NoWorker(names) == SelectSeq(names, LAMBDA n : n # "afterContextCreate(worker)")

\* C1: in an execute() call whose runtime and context creation succeed,
\* followed by the destructor, the registered callbacks fire in the order
\* afterRuntimeCreate, afterContextCreate of the main context,
\* afterContextCreate of worker contexts, afterExecute, beforeRelease, and
\* each of the four fires once.
C1_HookOrder ==
    (calls >= 1 /\ ~RuntimeFailed /\ ~ContextFailed) =>
        LET names == HookNames(trace, RunCtx)
            inExecute == Registered(<<"afterRuntimeCreate", "afterContextCreate",
                                      "afterExecute">>)
            all == Registered(<<"afterRuntimeCreate", "afterContextCreate",
                                "afterExecute", "beforeRelease">>) IN
        /\ IsPrefix(NoWorker(names), all)
        /\ (pc = "idle" /\ HasReturned) => NoWorker(names) = inExecute
        /\ pc = "destroyed" => NoWorker(names) = all
        /\ \A i \in 1..Len(names) :
             names[i] = "afterContextCreate(worker)" =>
                /\ \A j \in 1..i : names[j] # "afterExecute"
                /\ "afterContextCreate" \in hooks =>
                      \E j \in 1..i : names[j] = "afterContextCreate"

\* One successful execute() with every callback registered and a worker
\* thread spawned, then the destructor.
C1_Witness ==
    /\ pc = "destroyed"
    /\ calls = 1
    /\ hooks = AllHooks
    /\ workers = 1
    /\ HasReturned /\ ReturnValue = 0
    /\ HookNames(trace, context_) =
         <<"afterRuntimeCreate", "afterContextCreate", "afterExecute", "beforeRelease">>

----------------------------------------------------------------------------
(* C2 *)

\* The current (or last) execute() created its runtime and its main context
\* and has returned.
RunSucceeded == HasReturned /\ RunRt # 0 /\ RunCtx # 0

\* C2 as claimed: once execute() has returned from a successful run, its main
\* context and then its runtime have been released, beforeRelease having
\* fired, whether or not the executor has been destroyed.
C2_ReleasedAtReturn ==
    RunSucceeded =>
        /\ ReleasesOfContext(RunCtx) = 1
        /\ ReleasesOfRuntime(RunRt) = 1
        /\ "beforeRelease" \in hooks => Positions("beforeRelease") # {}

\* C2 as amended: nothing is released and beforeRelease does not fire before
\* the destructor runs; the destructor of an executor whose last execute()
\* succeeded fires beforeRelease with that call's runtime and context, then
\* releases the context, then the runtime.
C2_ReleasedAtDestruction ==
    /\ pc # "destroyed" => (released = <<>> /\ Positions("beforeRelease") = {})
    /\ (pc = "destroyed" /\ RunSucceeded) =>
          /\ released = <<Ev("JS_FreeContext", 0, RunCtx, <<>>, 0),
                          Ev("JS_FreeRuntime", RunRt, 0, <<>>, 0)>>
          /\ DtorSlice = (IF "beforeRelease" \in hooks
                          THEN <<Ev("beforeRelease", RunRt, RunCtx, <<>>, 0)>>
                          ELSE <<>>) \o released

\* A successful execute() has returned and the destructor has run, with
\* beforeRelease registered.
C2_Witness ==
    /\ pc = "destroyed"
    /\ RunSucceeded
    /\ "beforeRelease" \in hooks
    /\ Len(released) = 2

----------------------------------------------------------------------------
(* C3 *)

\* C3 as claimed: at most one runtime and at most one main context created by
\* the executor are live at any time, and once the executor is destroyed
\* every runtime and main context it created has been released exactly once.
C3_OneLiveReleasedOnce ==
    /\ Cardinality(LiveRuntimes) <= 1
    /\ Cardinality(LiveContexts) <= 1
    /\ pc = "destroyed" =>
          /\ \A h \in CreatedRuntimes : ReleasesOfRuntime(h) = 1
          /\ \A h \in CreatedContexts : ReleasesOfContext(h) = 1

----------------------------------------------------------------------------
(* C4 *)

\* C4: the destructor fires beforeRelease with (runtime_, context_) before any
\* release, releases the context before the runtime, releases the handles
\* the executor holds, releases only handles that were created, none twice.
C4_Teardown ==
    /\ \A i \in 1..Len(released) :
          /\ released[i].op = "JS_FreeContext" => released[i].ctx \in CreatedContexts
          /\ released[i].op = "JS_FreeRuntime" => released[i].rt \in CreatedRuntimes
          /\ \A j \in 1..Len(released) : released[i] = released[j] => i = j
    /\ pc = "destroyed" =>
          /\ Select(DtorSlice, FreeOps) = released
          /\ context_ # 0 => ReleasesOfContext(context_) = 1
          /\ runtime_ # 0 => ReleasesOfRuntime(runtime_) = 1
          /\ \A i, j \in 1..Len(DtorSlice) :
                /\ (DtorSlice[i].op = "JS_FreeRuntime" /\ DtorSlice[j].op = "JS_FreeContext")
                      => j < i
                /\ (DtorSlice[i].op = "beforeRelease" /\ DtorSlice[j].op \in FreeOps)
                      => i < j
          /\ "beforeRelease" \in hooks =>
                DtorSlice[1] = Ev("beforeRelease", runtime_, context_, <<>>, 0)

\* The destructor has run on an executor that holds a runtime and a context,
\* with beforeRelease registered.
C4_Witness ==
    /\ pc = "destroyed"
    /\ "beforeRelease" \in hooks
    /\ runtime_ # 0
    /\ context_ # 0
    /\ Len(DtorSlice) = 3

\* The destructor has run on an executor whose context was never created.
C4_WitnessSkipped ==
    /\ pc = "destroyed"
    /\ runtime_ # 0
    /\ context_ = 0
    /\ Len(released) = 1

----------------------------------------------------------------------------
(* C5 *)

\* Whether events report msg through the generic error channel.
Reports(events, msg) ==
    \E i \in 1..Len(events) :
        events[i].op \in {"onError", "stderr"} /\ events[i].arg = <<msg>>

\* C5 as claimed: when JS_NewRuntime fails, execute() reports the failure,
\* returns a nonzero status, and none of afterRuntimeCreate,
\* afterContextCreate, afterExecute and beforeRelease fires afterwards, the
\* destructor included.
C5_NoHookAfterRuntimeFailure ==
    (calls >= 1 /\ RuntimeFailed) =>
        /\ Reports(trace, "RuntimeCreateFailed")
        /\ HasReturned /\ ReturnValue # 0
        /\ Select(trace, LifecycleHooks) = <<>>

----------------------------------------------------------------------------
(* C6 *)

EntryOps == {"js_std_eval_binary_bool", "JS_Eval", "js_std_loop", "afterContextCreate",
             "afterExecute"}

\* C6 as claimed: an execute() whose main context creation fails reports the
\* failure, returns -1, evaluates nothing, does not run the event loop, fires
\* neither afterContextCreate nor afterExecute; once the executor is
\* destroyed the runtime that call created has been released exactly once,
\* and no context is released for it.
C6_ContextFailure ==
    \A k \in 1..calls :
        (created[k].rt # 0 /\ created[k].ctx = 0 /\ (k < calls \/ ContextFailed)) =>
            /\ k = calls =>
                  /\ Reports(trace, "ContextCreateFailed")
                  /\ HasReturned /\ ReturnValue = -1
                  /\ Select(trace, EntryOps) = <<>>
            /\ pc = "destroyed" => ReleasesOfRuntime(created[k].rt) = 1
            /\ \A i \in 1..Len(released) :
                  released[i].op = "JS_FreeContext" => released[i].ctx # 0

----------------------------------------------------------------------------
(* C7 *)

----------------------------------------------------------------------------
(* C8, C9, C10: the parser *)

\* loadModulesFromFile was the last public method called, on a file that exists.
Parsed == parses >= 1 /\ disk.exists /\ trace[1].op = "loadModulesFromFile"

\* What the call reported.
ParseOutput == Tail(trace)

\* The modules that records stand for.
Expected(recs) ==
    [i \in 1..Len(recs) |-> [load_only |-> recs[i].flag # 0, data |-> recs[i].payload]]

AllWellFormed(recs) == \A i \in 1..Len(recs) : WellFormed(recs[i])

\* C8: a container of N >= 0 complete records with lengths in (0, maximum]
\* parses to N modules with the records' flags (0: entry, nonzero: load_only)
\* and payloads in order, and nothing is reported.
C8_RoundTrip ==
    (Parsed /\ disk.partial = <<>> /\ AllWellFormed(disk.recs)) =>
        /\ modules_ = Expected(disk.recs)
        /\ ParseOutput = <<>>

\* Two records, flags 255 and 0, on a big-endian host.
C8_Witness ==
    /\ Parsed
    /\ bigEndianHost
    /\ disk = File(<<Rec(255, PayloadA), Rec(0, PayloadB)>>)
    /\ modules_ = <<[load_only |-> TRUE, data |-> PayloadA],
                    [load_only |-> FALSE, data |-> PayloadB]>>

\* C9: when a container of well-formed records ends inside the length field
\* or inside the payload of a record, one format error is written, and
\* modules_ holds the records before it, in order; when it ends at a record
\* boundary nothing is written.
C9_Truncation ==
    (Parsed /\ AllWellFormed(disk.recs)) =>
        /\ modules_ = Expected(disk.recs)
        /\ disk.partial = <<>> => ParseOutput = <<>>
        /\ disk.partial # <<>> =>
              /\ Len(ParseOutput) = 1
              /\ ParseOutput[1].op \in {"stderr", "stdout"}
              /\ ParseOutput[1].arg =
                    (IF disk.keep < 1 + U64Bytes THEN <<"HeaderIncomplete">>
                                                 ELSE <<"DataIncomplete">>)
              /\ ParseOutput[1].n = Len(disk.recs)

\* Two complete records, then a record cut off inside its payload.
C9_Witness ==
    /\ Parsed
    /\ Len(disk.recs) = 2
    /\ disk.partial = <<Rec(1, PayloadB)>>
    /\ disk.keep = U64Bytes + 2
    /\ Len(modules_) = 2

\* The length field is 0 or above the maximum.
LengthOutOfRange(r) ==
    \/ r.len = U64(0)
    \/ \E i \in 4..U64Bytes : r.len[i] >= 128 \/ (i > 4 /\ r.len[i] > 0)
    \/ U64ToNat(r.len) > MAX_MODULE_SIZE

\* The index of the first record whose length field is out of range.
FirstOutOfRange(recs) ==
    Min({i \in 1..Len(recs) : LengthOutOfRange(recs[i])} \cup {Len(recs) + 1})

\* C10: the records before the first one whose length field is 0 or above
\* the maximum are all in modules_, those of the maximal length included;
\* at that record a size error is written and parsing stops, so that it and
\* the records after it are not in modules_.
C10_SizeBounds ==
    (Parsed /\ \A i \in 1..Len(disk.recs) :
                  WellFormed(disk.recs[i]) \/ LengthOutOfRange(disk.recs[i])) =>
        LET j == FirstOutOfRange(disk.recs) IN
        /\ IsPrefix(Expected(SubSeq(disk.recs, 1, j - 1)), modules_)
        /\ j <= Len(disk.recs) =>
              /\ modules_ = Expected(SubSeq(disk.recs, 1, j - 1))
              /\ ParseOutput = <<Ev("stderr", 0, 0, <<"SizeAbnormal">>, j - 1)>>

\* A record of the maximal length, accepted, then a record of one byte more,
\* rejected.
C10_Witness ==
    /\ Parsed
    /\ Len(disk.recs) = 2
    /\ disk.recs[1] = Rec(1, PayloadMax)
    /\ disk.recs[2].len = U64(MAX_MODULE_SIZE + 1)
    /\ modules_ = <<[load_only |-> TRUE, data |-> PayloadMax]>>

----------------------------------------------------------------------------
(* C11 *)

\* What loadModulesFromFile reported inside the current (or last) execute():
\* the events between the entry of execute() and JS_NewRuntime.
ExecuteParseOutput ==
    IF calls >= 1 /\ Positions("JS_NewRuntime") # {}
    THEN SubSeq(trace, 2, Min(Positions("JS_NewRuntime")) - 1)
    ELSE <<>>

\* C11 as claimed: whatever the parser reports inside execute() (file not
\* opened, truncated length field, truncated payload, length out of range)
\* is an onError invocation when onError is registered, and a line on a
\* stream only when it is not.
C11_ParserErrorsThroughChannel ==
    \A i \in 1..Len(ExecuteParseOutput) :
        IF "onError" \in hooks
        THEN ExecuteParseOutput[i].op = "onError"
        ELSE ExecuteParseOutput[i].op \in {"stderr", "stdout"}

----------------------------------------------------------------------------
(* C12 *)

\* C12 as claimed: after a direct call of loadModulesFromFile, modules_ holds
\* only modules of the file of that call, none when the file was not opened.
C12_FreshRegistry ==
    (parses >= 1 /\ trace[1].op = "loadModulesFromFile") =>
        IF disk.exists THEN IsPrefix(modules_, Expected(disk.recs))
        ELSE modules_ = <<>>

----------------------------------------------------------------------------
(* C13 *)

\* The indices of the load_only modules, ascending.
PreloadIndices(mods) ==
    SelectSeq([i \in 1..Len(mods) |-> i], LAMBDA i : mods[i].load_only)

\* The events after the JS_NewContext at position i, up to the next
\* JS_NewContext.
AfterNewContext(i) ==
    SubSeq(trace, i + 1,
           Min({j \in Positions("JS_NewContext") : j > i} \cup {Len(trace) + 1}) - 1)

\* C13: in BINARY mode every invocation of the factory on modules_ evaluates
\* on the context it created the load_only modules, each once, in the order
\* of modules_, and no other module; afterContextCreate fires after the last
\* of them; so any two invocations evaluate the same sequence.  An
\* invocation whose JS_NewContext fails evaluates nothing.
C13_FactoryReplaysPreloads ==
    executionMode_ = "BINARY" =>
        \A i \in Positions("JS_NewContext") :
            LET rt == trace[i].rt
                ctx == trace[i].ctx
                P == PreloadIndices(modules_) IN
            AfterNewContext(i) =
                IF ctx = 0 THEN <<>>
                ELSE [k \in 1..Len(P) |->
                         Ev("js_std_eval_binary_bool", rt, ctx, <<"load_only">>, P[k])]
                     \o (IF "afterContextCreate" \in hooks
                         THEN <<Ev("afterContextCreate", rt, ctx, <<>>, 0)>>
                         ELSE <<>>)

\* Two invocations that created a context, on modules_ = preload, entry,
\* preload, with afterContextCreate registered.
C13_Witness ==
    /\ executionMode_ = "BINARY"
    /\ "afterContextCreate" \in hooks
    /\ Len(modules_) = 3
    /\ PreloadIndices(modules_) = <<1, 3>>
    /\ Cardinality({i \in Positions("JS_NewContext") : trace[i].ctx # 0}) = 2

----------------------------------------------------------------------------
(* C14 *)

\* What the factory does for a worker's runtime rt when it creates ctx.
FactoryEvents(rt, ctx) ==
    LET P == PreloadIndices(modules_) IN
    <<Ev("JS_NewContext", rt, ctx, <<>>, 0)>>
    \o (IF executionMode_ = "BINARY"
        THEN [k \in 1..Len(P) |->
                 Ev("js_std_eval_binary_bool", rt, ctx, <<"load_only">>, P[k])]
        ELSE <<>>)
    \o (IF "afterContextCreate" \in hooks
        THEN <<Ev("afterContextCreate", rt, ctx, <<>>, 0)>>
        ELSE <<>>)

\* C14 as claimed: the context of every worker thread the engine starts
\* during execute() is created by the factory: JS_NewContext, the load_only
\* modules in order, afterContextCreate.
C14_WorkersUseFactory ==
    \A i \in Positions("workerThread") :
        /\ i + 1 <= Len(trace)
        /\ LET want == FactoryEvents(trace[i].rt, trace[i + 1].ctx) IN
            /\ i + Len(want) <= Len(trace)
            /\ SubSeq(trace, i + 1, i + Len(want)) = want

----------------------------------------------------------------------------
(* The exception reporter in the trace *)

ReporterRefs == {"exception", "err_cstr", "name_val", "message_val", "stack_val",
                 "name_cstr", "message_cstr", "stack_cstr"}
RefOps == {"JS_GetException", "JS_ToCString", "JS_GetPropertyStr", "JS_FreeCString",
           "JS_FreeValue"}
DeliveryOps == {"onJsError", "onError", "stderr"}

\* An event that getExceptionStack can be the source of.
IsReporterEvent(e) ==
    \/ e.op \in DeliveryOps
    \/ e.op \in RefOps /\ Len(e.arg) = 1 /\ e.arg[1] \in ReporterRefs

\* The positions where getExceptionStack is entered, and the events of the
\* invocation entered at i.
ReporterCalls == Positions("JS_GetException")
ReporterSlice(i) ==
    SubSeq(trace, i,
           Min({j \in (i + 1)..Len(trace) :
                   ~IsReporterEvent(trace[j]) \/ trace[j].op = "JS_GetException"}
               \cup {Len(trace) + 1}) - 1)

\* The exception value the invocation entered at i found pending.
Pending(i) == ExcSeq[trace[i].n]

\* What an invocation handed to a callback or wrote to a stream.
Deliveries(sl) == Select(sl, DeliveryOps)

----------------------------------------------------------------------------
(* C15 *)

\* The indices of the modules that are not load_only, ascending.
EntryIndices(mods) ==
    SelectSeq([i \in 1..Len(mods) |-> i], LAMBDA i : ~mods[i].load_only)

\* The evaluations of entry modules in the trace.
EntryEvals ==
    SelectSeq(trace, LAMBDA e : e.op = "js_std_eval_binary_bool" /\ e.arg[1] = "entry")

InBinaryRun == executionMode_ = "BINARY" /\ calls >= 1 /\ RunCtx # 0

\* Every module that is not load_only is evaluated on the main context once,
\* in the order of modules_, whatever the earlier evaluations returned.
EntriesEvaluatedInOrder ==
    InBinaryRun =>
        /\ IsPrefix([k \in 1..Len(EntryEvals) |-> EntryEvals[k].n], EntryIndices(modules_))
        /\ pc # "runEntry" => Len(EntryEvals) = Len(EntryIndices(modules_))
        /\ \A k \in 1..Len(EntryEvals) : EntryEvals[k].ctx = RunCtx

\* Every failed evaluation of an entry module is reported once (when the
\* exception has a display string).
EveryFailureReported ==
    InBinaryRun =>
        /\ Cardinality(ReporterCalls) =
             Len(SelectSeq(EntryEvals, LAMBDA e : e.arg[2] = "failed"))
        /\ \A i \in ReporterCalls :
              Pending(i).str.ok => Len(Deliveries(ReporterSlice(i))) = 1

\* C15 as claimed: the entry modules are all evaluated once and in order,
\* and there are as many exception reports as failed evaluations.
C15_EntriesAndReports == EntriesEvaluatedInOrder /\ EveryFailureReported

----------------------------------------------------------------------------
(* C16 *)

\* Where the missing entry module is reported.
NoEntryReports ==
    {i \in 1..Len(trace) :
        trace[i].op \in {"onError", "stderr"} /\ trace[i].arg = <<"NoEntryModule">>}

\* C16: in BINARY mode, once the loop over modules_ is done, a run whose
\* modules_ has no entry module has reported that once, through onError if
\* registered and on stderr if not, before js_std_loop; the run goes on to
\* js_std_loop and afterExecute and returns js_std_loop's status.  A run
\* whose modules_ has an entry module reports no missing entry module.
C16_NoEntryModule ==
    InBinaryRun =>
        IF EntryIndices(modules_) # <<>> \/ pc = "runEntry"
        THEN NoEntryReports = {}
        ELSE /\ Cardinality(NoEntryReports) = 1
             /\ \A i \in NoEntryReports :
                   /\ trace[i].op = (IF "onError" \in hooks THEN "onError" ELSE "stderr")
                   /\ \A j \in Positions("js_std_loop") : i < j
             /\ HasReturned =>
                   /\ Cardinality(Positions("js_std_loop")) = 1
                   /\ ReturnValue = trace[Min(Positions("js_std_loop"))].n
                   /\ "afterExecute" \in hooks =>
                         \E j \in Positions("afterExecute") :
                             Min(Positions("js_std_loop")) < j

\* A container of one load_only module, onError and afterExecute
\* registered: the run has returned js_std_loop's status 1.
C16_Witness ==
    /\ InBinaryRun
    /\ HasReturned
    /\ ReturnValue = 1
    /\ {"onError", "afterExecute"} \subseteq hooks
    /\ Len(modules_) = 1
    /\ modules_[1].load_only
    /\ NoEntryReports # {}

----------------------------------------------------------------------------
(* C17 *)

\* C17: an invocation of getExceptionStack that finds an error object
\* pending (one that has a display string), with onJsError registered,
\* invokes onJsError once, with runtime_, context_ and the object's name,
\* message and stack, "" for each that cannot be coerced, and invokes
\* onError not at all.
C17_StructuredToOnJsError ==
    \A i \in ReporterCalls :
        LET exc == Pending(i) IN
        (exc.isError /\ exc.str.ok /\ "onJsError" \in hooks) =>
            Deliveries(ReporterSlice(i)) =
                <<Ev("onJsError", trace[i].rt, trace[i].ctx,
                     <<IF exc.name.ok THEN exc.name.s ELSE "",
                       IF exc.message.ok THEN exc.message.s ELSE "",
                       IF exc.stack.ok THEN exc.stack.s ELSE "">>, 0)>>

\* With onJsError and onError registered, a TypeError("bad input") and an
\* error object without message and stack have been reported in one run.
C17_Witness ==
    /\ {"onJsError", "onError"} \subseteq hooks
    /\ \E i \in Positions("onJsError") :
          trace[i].arg = <<"TypeError", "bad input", "at main">>
    /\ \E i \in Positions("onJsError") : trace[i].arg = <<"Error", "", "">>

----------------------------------------------------------------------------
(* C18 *)

\* C18 as claimed: an invocation of getExceptionStack that finds pending a
\* value that is not an error object (and has a display string), with
\* onError registered, invokes onError once with the display string and
\* onJsError not at all.
C18_PlainToOnError ==
    \A i \in ReporterCalls :
        LET exc == Pending(i) IN
        (~exc.isError /\ exc.str.ok /\ "onError" \in hooks) =>
            Deliveries(ReporterSlice(i)) =
                <<Ev("onError", trace[i].rt, trace[i].ctx, <<exc.str.s>>, 0)>>

----------------------------------------------------------------------------
(* C19 *)

\* The callback an exception value is for.
CallbackFor(exc) == IF exc.isError THEN "onJsError" ELSE "onError"

\* C19 as claimed: an invocation of getExceptionStack that finds pending a
\* value with a display string, while the callback for that value is not
\* registered, writes the display string to stderr.
C19_NeverDropped ==
    \A i \in ReporterCalls :
        LET exc == Pending(i) IN
        (exc.str.ok /\ CallbackFor(exc) \notin hooks) =>
            \E k \in 1..Len(ReporterSlice(i)) :
                /\ ReporterSlice(i)[k].op = "stderr"
                /\ ReporterSlice(i)[k].arg = <<exc.str.s>>

----------------------------------------------------------------------------
(* C20 *)

\* An event that acquires a reference (a NULL string is no reference), and
\* one that releases a reference.
IsAcquire(e) ==
    \/ e.op \in {"JS_GetException", "JS_GetPropertyStr"}
    \/ e.op = "JS_ToCString" /\ e.n = 1
IsRelease(e) ==
    \/ e.op = "JS_FreeValue"
    \/ e.op = "JS_FreeCString" /\ e.n = 1

\* Where the events sl acquire the reference held in ref, and where they
\* release it.
Acquires(sl, ref) == {k \in 1..Len(sl) : sl[k].arg = <<ref>> /\ IsAcquire(sl[k])}
Releases(sl, ref) == {k \in 1..Len(sl) : sl[k].arg = <<ref>> /\ IsRelease(sl[k])}

\* C20: in every invocation of getExceptionStack each reference acquired
\* (the exception, the values of name, message and stack, the strings
\* coerced from them and from the exception) is released once, after it was
\* acquired, and nothing is released that was not acquired.
C20_ReferencesReleasedOnce ==
    \A i \in ReporterCalls :
        LET sl == ReporterSlice(i)
            acq == {k \in 1..Len(sl) : IsAcquire(sl[k])}
            rel == {k \in 1..Len(sl) : IsRelease(sl[k])} IN
        /\ \A a \in acq :
              /\ \A b \in acq : sl[a].arg = sl[b].arg => a = b
              /\ \E r \in rel : sl[r].arg = sl[a].arg /\ a < r
        /\ \A r \in rel :
              /\ \A q \in rel : sl[r].arg = sl[q].arg => r = q
              /\ \E a \in acq : sl[a].arg = sl[r].arg /\ a < r

\* One run in which the reporter handled a value without display string and
\* an error object whose message and stack are not coercible.
C20_Witness ==
    /\ \E i \in ReporterCalls : Pending(i) = UncoercibleValue
    /\ \E i \in ReporterCalls :
          /\ Pending(i) = BareErrorValue
          /\ Cardinality(UNION {Releases(ReporterSlice(i), ref) : ref \in ReporterRefs}) = 6

----------------------------------------------------------------------------
(* C21 *)

\* The current (or last) execute() is a JS mode run that is past the
\* evaluation of the entry source.
SourceEvaluated ==
    /\ executionMode_ = "JS"
    /\ calls >= 1
    /\ RunCtx # 0
    /\ Positions("JS_Eval") # {}

\* How the evaluation came out: "throws", "rejected" or "fulfilled".
SourceOutcome == trace[Min(Positions("JS_Eval"))].arg[1]

RunResultReleases ==
    {i \in 1..Len(trace) : trace[i].op = "JS_FreeValue" /\ trace[i].arg = <<"runResult">>}

\* C21 as claimed: in JS mode a result settled as rejected is handed to
\* getExceptionStack once, whatever the rejection value; a fulfilled result
\* leads to no report; on every path runResult is freed once, and
\* js_std_loop and afterExecute follow.
C21_RejectionReported ==
    SourceEvaluated =>
        /\ SourceOutcome = "rejected" => Cardinality(ReporterCalls) = 1
        /\ SourceOutcome = "fulfilled" =>
              ReporterCalls = {} /\ Select(trace, {"onJsError"}) = <<>>
        /\ Cardinality(RunResultReleases) = 1
        /\ HasReturned =>
              /\ Cardinality(Positions("js_std_loop")) = 1
              /\ "afterExecute" \in hooks => Positions("afterExecute") # {}

----------------------------------------------------------------------------
(* C22 *)

\* The positions of execute() from JS_NewRuntime to its return.
Executing == pc \in {"newRuntime", "newContext", "runEntry", "eventLoop"}

\* C22: no step taken while execute() is between JS_NewRuntime and its
\* return (creation of the runtime, of the main context and of worker
\* contexts, evaluation of entry modules, exception reports, js_std_loop,
\* callbacks) changes modules_.
C22_RegistryFrozen == [][Executing => modules_' = modules_]_vars

\* A BINARY run on three modules has returned after a worker thread was
\* started and a failed entry module was reported.
C22_Witness ==
    /\ InBinaryRun
    /\ HasReturned
    /\ workers >= 1
    /\ ReporterCalls # {}
    /\ Len(modules_) = 3
    /\ modules_ = Expected(disk.recs)

----------------------------------------------------------------------------
(* C23 *)

\* Where modules of kind "load_only" or "entry" are evaluated on the main
\* context.
MainEvals(kind) ==
    {i \in Positions("js_std_eval_binary_bool") :
        trace[i].ctx = RunCtx /\ trace[i].arg[1] = kind}

\* C23: in BINARY mode, once the main context exists, every load_only module
\* of modules_ has been evaluated on it, in the order of modules_, and each
\* of these evaluations comes before every evaluation of an entry module,
\* wherever the records stand in the container; in JS mode no module of
\* modules_ is evaluated on any context.
C23_PreloadsBeforeEntries ==
    (calls >= 1 /\ RunCtx # 0) =>
        IF executionMode_ = "BINARY"
        THEN /\ [k \in 1..Len(PreloadIndices(modules_)) |->
                    Ev("js_std_eval_binary_bool", RunRt, RunCtx, <<"load_only">>,
                       PreloadIndices(modules_)[k])]
                = SelectSeq(trace, LAMBDA e : /\ e.op = "js_std_eval_binary_bool"
                                              /\ e.ctx = RunCtx
                                              /\ e.arg[1] = "load_only")
             /\ \A p \in MainEvals("load_only"), e \in MainEvals("entry") : p < e
        ELSE Positions("js_std_eval_binary_bool") = {}

\* A BINARY run on the container preload, entry, preload has evaluated its
\* entry module.
C23_Witness ==
    /\ InBinaryRun
    /\ PreloadIndices(modules_) = <<1, 3>>
    /\ EntryIndices(modules_) = <<2>>
    /\ Cardinality(MainEvals("load_only")) = 2
    /\ Cardinality(MainEvals("entry")) = 1

\* A JS mode run on an executor whose modules_ holds a load_only module has
\* evaluated its source.
C23_WitnessSource ==
    /\ SourceEvaluated
    /\ PreloadIndices(modules_) # <<>>

====
